---- MODULE Spec2Model ----
(***************************************************************************)
(* changeDir (src/src/main.rs): a directory bookmarking and navigation     *)
(* helper.  One invocation of the binary is one action of this module,     *)
(* except where two invocations run at the same time: there the read and   *)
(* the write of a store are separate actions.  The durable state is three  *)
(* files under the home directory: the bookmark file, the history file     *)
(* and the target file.                                                    *)
(*                                                                         *)
(* Paths are abstract identifiers.  A path string never holds a newline    *)
(* (the file format cannot carry one), so joining with "\n" and splitting  *)
(* into lines keeps every path string as written; what load does to a      *)
(* line beyond that (trim, skip when empty) is modelled by trim and        *)
(* filter_map below.  Characters are their code points.                    *)
(***************************************************************************)
EXTENDS Integers, Sequences, FiniteSets, TLC

\* ------------------------------------------------------------------------
\* Program constants
\* ------------------------------------------------------------------------
MAX_BOOKMARKS == 36

HISTORY_MAX == 10

SELECT_LIMIT == 36

CH_0 == 48

CH_9 == 57

CH_a == 97

CH_z == 122

CH_QUESTION == 63

\* ------------------------------------------------------------------------
\* Bounds of the model
\* ------------------------------------------------------------------------
\* Invocations per behaviour.
MaxSteps == 2

\* Directories beyond the MAX_BOOKMARKS that can fill the bookmark store.
NExtra == 30

\* Directories whose name ends in white space (each with one child).
NPadded == 1

\* The largest index given to get_prefix_char and the largest character
\* given to get_index_from_char.
MaxIndex == 40

MaxChar == 127

\* ------------------------------------------------------------------------
\* The directory tree the invocations run in
\* ------------------------------------------------------------------------
\* 1 is the root "/"; 2..NClean are directories whose path string has no
\* leading or trailing white space, laid out as a binary tree.
NClean == MAX_BOOKMARKS + NExtra

\* NClean+j is a directory whose name ends in a blank: its path string is
\* the path string of directory j+1 followed by white space.
Padded == (NClean + 1)..(NClean + NPadded)

\* NClean+NPadded+j is a subdirectory of the padded directory NClean+j.
PadChild == (NClean + NPadded + 1)..(NClean + 2 * NPadded)

Paths == 1..(NClean + 2 * NPadded)

\* The empty string (a blank line of a file).
Blank == 0

\* The absence of a path (Option::None).
None == 0 - 1

\* str::trim on a line holding a path string.
trim(p) == IF p \in Padded THEN p - NClean + 1 ELSE p

\* Path::parent.
parent(p) ==
    IF p = 1 THEN None
    ELSE IF p \in PadChild THEN p - NPadded
    ELSE IF p \in Padded THEN trim(p) \div 2
    ELSE p \div 2

\* A path that names no directory of the tree.
Nowhere == 0 - 2

\* Directory names, numbered in their sorting order: "L", "L " (L and a
\* blank), "R", "R " and a name no directory has.
NAME_L == 1

NAME_LPAD == 2

NAME_R == 3

NAME_RPAD == 4

NAME_Z == 5

\* The directory whose path string is that of the clean directory c
\* followed by a blank (trim takes it back to c).
pad(c) == c + NClean - 1

\* Path::file_name: the root has none; in the clean tree the even
\* directories are named "L" and the odd ones "R"; a padded directory has
\* the name of the directory it trims to, followed by a blank; the child
\* of a padded directory is named "L".
file_name(p) ==
    IF p = 1 THEN None
    ELSE IF p \in Padded
    THEN (IF trim(p) % 2 = 0 THEN NAME_LPAD ELSE NAME_RPAD)
    ELSE IF p \in PadChild THEN NAME_L
    ELSE IF p % 2 = 0 THEN NAME_L
    ELSE NAME_R

\* Path::join(name), for a directory of the tree and a plain name.
join(dir, name) ==
    IF dir \in 1..NClean
    THEN IF name = NAME_L /\ 2 * dir <= NClean THEN 2 * dir
         ELSE IF name = NAME_R /\ 2 * dir + 1 <= NClean THEN 2 * dir + 1
         ELSE IF name = NAME_LPAD /\ pad(2 * dir) \in Padded THEN pad(2 * dir)
         ELSE IF name = NAME_RPAD /\ pad(2 * dir + 1) \in Padded
         THEN pad(2 * dir + 1)
         ELSE Nowhere
    ELSE IF dir \in Padded /\ name = NAME_L THEN dir + NPadded
    ELSE Nowhere

\* A directory six levels below the root, with its ancestors.
DeepDir == 64

Chain == {1, 2, 4, 8, 16, 32, 64}

\* The working directories the invocations are started in.
CwdSet == {1, 2, MAX_BOOKMARKS + 1} \cup Padded \cup PadChild

\* ------------------------------------------------------------------------
\* Files
\* ------------------------------------------------------------------------
NoFile == [exists |-> FALSE, lines |-> <<>>]

NoTarget == [exists |-> FALSE, path |-> None]

Contains(s, x) == \E i \in 1..Len(s) : s[i] = x

\* Vec::retain(|p| p != &path)
Retain(s, x) == SelectSeq(s, LAMBDA y : y # x)

\* Vec::truncate
Truncate(s, n) == IF Len(s) > n THEN SubSeq(s, 1, n) ELSE s

\* .lines().filter_map(|line| trimmed, skipping the empty ones).collect()
filter_map(ls) ==
    SelectSeq([i \in 1..Len(ls) |-> trim(ls[i])], LAMBDA x : x # Blank)

load_bookmarks(f) == IF ~f.exists THEN <<>> ELSE filter_map(f.lines)

save_bookmarks(bookmarks) == [exists |-> TRUE, lines |-> bookmarks]

load_history(f) == IF ~f.exists THEN <<>> ELSE filter_map(f.lines)

save_history(history) == [exists |-> TRUE, lines |-> history]

write_target_file(path) == [exists |-> TRUE, path |-> path]

\* Mutant: the target file is left as the last invocation wrote it.
delete_target_file_kept(tf) == tf

\* delete_target_file: the target file after main's first statement.
delete_target_file(tf) == IF tf.exists THEN NoTarget ELSE tf

\* ------------------------------------------------------------------------
\* State
\* ------------------------------------------------------------------------
VARIABLES
    bookmarkFile,      \* ~/.local/changeDirectory
    historyFile,       \* ~/.local/changeDirectoryHistory
    targetFile,        \* ~/.local/share/changedir.target
    op,                \* the action the last invocation dispatched to
    flags,             \* the action flags on its command line
    cwd,               \* its working directory
    arg,               \* its letter or name argument, or the line it read
    pathExists,        \* what Path::exists answered back
    disk,              \* the directories that existed while it ran
    exitCode,          \* its exit code
    message,           \* the condition it reported
    visited,           \* the path it handed to add_to_history, or None
    display,           \* the numbered lines it printed
    prevBookmarkFile,  \* the bookmark file when it started
    prevHistoryFile,   \* the history file when it started
    prevTargetFile,    \* the target file when it started
    steps,             \* invocations so far
    codec,             \* the last conversion between index and character
    procs              \* the invocations running at the same time, if any

vars == <<bookmarkFile, historyFile, targetFile, op, flags, cwd, arg,
          pathExists, disk, exitCode, message, visited, display,
          prevBookmarkFile, prevHistoryFile, prevTargetFile, steps, codec, procs>>

\* ------------------------------------------------------------------------
\* History store
\* ------------------------------------------------------------------------
\* The list add_to_history saves for the list it loaded.
record_visit(history, path) ==
    Truncate(<<path>> \o Retain(history, path), HISTORY_MAX)

\* add_to_history: the history file afterwards, or the I/O error of
\* save_history when the write fails (write_ok = FALSE).
add_to_history(hf, path, write_ok) ==
    IF write_ok
    THEN [ok |-> TRUE, file |-> save_history(record_visit(load_history(hf), path))]
    ELSE [ok |-> FALSE, file |-> hf]

\* ------------------------------------------------------------------------
\* Selection characters
\* ------------------------------------------------------------------------
\* Mutant: index 10 is still shown as a digit.
get_prefix_char_eleven_digits(index) ==
    IF index < 11 THEN CH_0 + index
    ELSE IF index < 36 THEN CH_a + (index - 10)
    ELSE CH_QUESTION

\* Mutant: indexes 10 to 35 are shown as upper-case letters.
get_prefix_char_upper_case(index) ==
    IF index < 10 THEN CH_0 + index
    ELSE IF index < 36 THEN 65 + (index - 10)
    ELSE CH_QUESTION

get_prefix_char(index) ==
    IF index < 10 THEN CH_0 + index
    ELSE IF index < 36 THEN CH_a + (index - 10)
    ELSE CH_QUESTION

\* Mutant: the letters lose their offset of 10.
get_index_from_char_no_offset(ch) ==
    IF ch >= CH_0 /\ ch <= CH_9 THEN ch - CH_0
    ELSE IF ch >= CH_a /\ ch <= CH_z THEN ch - CH_a
    ELSE None

\* Mutant: upper-case letters are accepted like lower-case ones.
get_index_from_char_any_case(ch) ==
    IF ch >= CH_0 /\ ch <= CH_9 THEN ch - CH_0
    ELSE IF ch >= CH_a /\ ch <= CH_z THEN 10 + (ch - CH_a)
    ELSE IF ch >= 65 /\ ch <= 90 THEN 10 + (ch - 65)
    ELSE None

get_index_from_char(ch) ==
    IF ch >= CH_0 /\ ch <= CH_9 THEN ch - CH_0
    ELSE IF ch >= CH_a /\ ch <= CH_z THEN 10 + (ch - CH_a)
    ELSE None

\* char::is_whitespace, for the characters the inputs are made of.
is_whitespace(ch) == ch \in {9, 10, 13, 32}

RECURSIVE trim_start(_)
trim_start(s) ==
    IF s # <<>> /\ is_whitespace(Head(s)) THEN trim_start(Tail(s)) ELSE s

RECURSIVE trim_end(_)
trim_end(s) ==
    IF s # <<>> /\ is_whitespace(s[Len(s)])
    THEN trim_end(SubSeq(s, 1, Len(s) - 1))
    ELSE s

\* str::trim on a line of input.
str_trim(s) == trim_end(trim_start(s))

\* .chars().next()
first_char(s) == IF s = <<>> THEN None ELSE s[1]

\* ------------------------------------------------------------------------
\* Unified selector
\* ------------------------------------------------------------------------
\* Mutant: the history is not filtered against the bookmarks.
filtered_history_unfiltered(bookmarks, history) == history

\* history.iter().filter(|hist_dir| !bookmarks.contains(hist_dir))
filtered_history(bookmarks, history) ==
    SelectSeq(history, LAMBDA hist_dir : ~Contains(bookmarks, hist_dir))

\* The blank line printed between the two groups.
Separator == <<None, None>>

\* The lines list and interactive choose print: <<prefix, path>> each.
render(bookmarks, filtered) ==
    LET start_index == Len(bookmarks)
        indexes == [i \in 1..Len(filtered) |-> start_index + (i - 1)]
        shown == SelectSeq(indexes, LAMBDA index : index < 36)
    IN  [i \in 1..Len(bookmarks) |-> <<get_prefix_char(i - 1), bookmarks[i]>>]
        \o (IF filtered # <<>> /\ bookmarks # <<>> THEN <<Separator>> ELSE <<>>)
        \o [k \in 1..Len(shown) |->
               <<get_prefix_char(shown[k]), filtered[shown[k] - start_index + 1]>>]

\* ------------------------------------------------------------------------
\* Handlers: what one invocation does to the files, as the code computes it
\* ------------------------------------------------------------------------
\* The outcome of a handler that chose nothing: the history file as it
\* was, and no target written (target is what the handler wrote, NoTarget
\* when it wrote none).
\* Mutant: a handler that chose nothing removes the history file.
Stay_removing_history(hf, exit, msg, shown) ==
    [exit |-> exit, msg |-> msg, history |-> NoFile, target |-> NoTarget,
     visited |-> None, display |-> shown]

Stay(hf, exit, msg, shown) ==
    [exit |-> exit, msg |-> msg, history |-> hf, target |-> NoTarget,
     visited |-> None, display |-> shown]

\* add_to_history(selected)?; write_target_file(selected)?; return Ok(())
\* An Err from add_to_history reaches main, which exits 1.
go(hf, selected, write_ok, shown) ==
    LET added == add_to_history(hf, selected, write_ok)
    IN  IF added.ok
        THEN [exit |-> 0, msg |-> "ok", history |-> added.file,
              target |-> write_target_file(selected),
              visited |-> selected, display |-> shown]
        ELSE [exit |-> 1, msg |-> "io_error", history |-> hf,
              target |-> NoTarget, visited |-> selected, display |-> shown]

\* Mutant: the capacity test is off by one (> for >=).
bookmark_current_off_by_one(bf, current_dir) ==
    LET bookmarks == load_bookmarks(bf)
    IN  IF Contains(bookmarks, current_dir)
        THEN [exit |-> 0, msg |-> "already_bookmarked", file |-> bf]
        ELSE IF Len(bookmarks) > MAX_BOOKMARKS
        THEN [exit |-> 1, msg |-> "max_bookmarks", file |-> bf]
        ELSE [exit |-> 0, msg |-> "bookmarked",
              file |-> save_bookmarks(Append(bookmarks, current_dir))]

\* Mutant: the capacity test comes before the duplicate test.
bookmark_current_capacity_first(bf, current_dir) ==
    LET bookmarks == load_bookmarks(bf)
    IN  IF Len(bookmarks) >= MAX_BOOKMARKS
        THEN [exit |-> 1, msg |-> "max_bookmarks", file |-> bf]
        ELSE IF Contains(bookmarks, current_dir)
        THEN [exit |-> 0, msg |-> "already_bookmarked", file |-> bf]
        ELSE [exit |-> 0, msg |-> "bookmarked",
              file |-> save_bookmarks(Append(bookmarks, current_dir))]

bookmark_current(bf, current_dir) ==
    LET bookmarks == load_bookmarks(bf)
    IN  IF Contains(bookmarks, current_dir)
        THEN [exit |-> 0, msg |-> "already_bookmarked", file |-> bf]
        ELSE IF Len(bookmarks) >= MAX_BOOKMARKS
        THEN [exit |-> 1, msg |-> "max_bookmarks", file |-> bf]
        ELSE [exit |-> 0, msg |-> "bookmarked",
              file |-> save_bookmarks(Append(bookmarks, current_dir))]

\* Mutant: the bookmarks are saved whether or not one was removed.
forget_current_always_saves(bf, current_dir) ==
    LET bookmarks == load_bookmarks(bf)
        retained == Retain(bookmarks, current_dir)
    IN  IF Len(retained) < Len(bookmarks)
        THEN [exit |-> 0, msg |-> "removed", file |-> save_bookmarks(retained)]
        ELSE [exit |-> 0, msg |-> "not_bookmarked",
              file |-> save_bookmarks(retained)]

forget_current(bf, current_dir) ==
    LET bookmarks == load_bookmarks(bf)
        retained == Retain(bookmarks, current_dir)
    IN  IF Len(retained) < Len(bookmarks)
        THEN [exit |-> 0, msg |-> "removed", file |-> save_bookmarks(retained)]
        ELSE [exit |-> 0, msg |-> "not_bookmarked", file |-> bf]

\* Mutant: the file is emptied, not removed.
forget_all_truncating(bf) ==
    IF bf.exists
    THEN [exit |-> 0, msg |-> "all_removed", file |-> save_bookmarks(<<>>)]
    ELSE [exit |-> 0, msg |-> "nothing_to_remove", file |-> bf]

forget_all(bf) ==
    IF bf.exists
    THEN [exit |-> 0, msg |-> "all_removed", file |-> NoFile]
    ELSE [exit |-> 0, msg |-> "nothing_to_remove", file |-> bf]

list_bookmarks(bf, hf) ==
    LET bookmarks == load_bookmarks(bf)
        history == load_history(hf)
        filtered == filtered_history(bookmarks, history)
        total_items == Len(bookmarks) + Len(filtered)
    IN  IF total_items = 0
        THEN Stay(hf, 0, "no_bookmarks", <<>>)
        ELSE Stay(hf, 0, "listed", render(bookmarks, filtered))

choose_directory_by_letter(bf, hf, letter, write_ok) ==
    LET bookmarks == load_bookmarks(bf)
        history == load_history(hf)
        filtered == filtered_history(bookmarks, history)
        total_items == Len(bookmarks) + Len(filtered)
        ch == first_char(letter)
        index == IF ch = None THEN None ELSE get_index_from_char(ch)
        invalid == Stay(hf, 1, "invalid_letter", <<>>)
    IN  IF total_items = 0 THEN Stay(hf, 1, "no_bookmarks", <<>>)
        ELSE IF ch = None \/ index = None THEN invalid
        ELSE IF index < Len(bookmarks)
        THEN go(hf, bookmarks[index + 1], write_ok, <<>>)
        ELSE IF index < total_items /\ index < SELECT_LIMIT
        THEN LET history_index == index - Len(bookmarks)
             IN  IF history_index < Len(filtered)
                 THEN go(hf, filtered[history_index + 1], write_ok, <<>>)
                 ELSE invalid
        ELSE invalid

\* Mutant: the interactive selection accepts upper-case letters.
choose_directory_interactive_any_case(bf, hf, input, write_ok) ==
    LET bookmarks == load_bookmarks(bf)
        history == load_history(hf)
        filtered == filtered_history(bookmarks, history)
        total_items == Len(bookmarks) + Len(filtered)
        shown == render(bookmarks, filtered)
        ch == first_char(str_trim(input))
        index == IF ch = None THEN None ELSE get_index_from_char_any_case(ch)
        invalid == Stay(hf, 1, "invalid_selection", shown)
    IN  IF total_items = 0 THEN Stay(hf, 1, "no_bookmarks", <<>>)
        ELSE IF ch = None \/ index = None THEN invalid
        ELSE IF index < Len(bookmarks)
        THEN go(hf, bookmarks[index + 1], write_ok, shown)
        ELSE IF index < total_items /\ index < SELECT_LIMIT
        THEN LET history_index == index - Len(bookmarks)
             IN  IF history_index < Len(filtered)
                 THEN go(hf, filtered[history_index + 1], write_ok, shown)
                 ELSE invalid
        ELSE invalid

choose_directory_interactive(bf, hf, input, write_ok) ==
    LET bookmarks == load_bookmarks(bf)
        history == load_history(hf)
        filtered == filtered_history(bookmarks, history)
        total_items == Len(bookmarks) + Len(filtered)
        shown == render(bookmarks, filtered)
        ch == first_char(str_trim(input))
        index == IF ch = None THEN None ELSE get_index_from_char(ch)
        invalid == Stay(hf, 1, "invalid_selection", shown)
    IN  IF total_items = 0 THEN Stay(hf, 1, "no_bookmarks", <<>>)
        ELSE IF ch = None \/ index = None THEN invalid
        ELSE IF index < Len(bookmarks)
        THEN go(hf, bookmarks[index + 1], write_ok, shown)
        ELSE IF index < total_items /\ index < SELECT_LIMIT
        THEN LET history_index == index - Len(bookmarks)
             IN  IF history_index < Len(filtered)
                 THEN go(hf, filtered[history_index + 1], write_ok, shown)
                 ELSE invalid
        ELSE invalid

\* Mutant: back records the path it resolves, like the other navigations.
change_to_previous_recording(hf, exists) ==
    LET history == load_history(hf)
    IN  IF history = <<>> THEN Stay(hf, 1, "no_history", <<>>)
        ELSE IF ~exists THEN Stay(hf, 1, "previous_missing", <<>>)
        ELSE go(hf, history[1], TRUE, <<>>)

\* Mutant: back does not test that the path still exists.
change_to_previous_unchecked(hf, exists) ==
    LET history == load_history(hf)
    IN  IF history = <<>> THEN Stay(hf, 1, "no_history", <<>>)
        ELSE [exit |-> 0, msg |-> "ok", history |-> hf,
              target |-> write_target_file(history[1]),
              visited |-> None, display |-> <<>>]

\* exists is the answer of previous.exists() for the entry at index 0.
change_to_previous(hf, exists) ==
    LET history == load_history(hf)
    IN  IF history = <<>> THEN Stay(hf, 1, "no_history", <<>>)
        ELSE IF ~exists THEN Stay(hf, 1, "previous_missing", <<>>)
        ELSE [exit |-> 0, msg |-> "ok", history |-> hf,
              target |-> write_target_file(history[1]),
              visited |-> None, display |-> <<>>]

change_up_one_level(hf, current, write_ok) ==
    IF parent(current) # None
    THEN go(hf, parent(current), write_ok, <<>>)
    ELSE Stay(hf, 1, "at_root", <<>>)

\* The existing subdirectories of a directory, as subdirs.sort() orders
\* them.
subdirectories(current, dk) ==
    SelectSeq(<<join(current, NAME_L), join(current, NAME_LPAD),
                join(current, NAME_R), join(current, NAME_RPAD)>>,
              LAMBDA path : path # Nowhere /\ path \in dk)

\* down.  fs::read_dir fails when the working directory is gone.
list_subdirectories(hf, current, dk, input, write_ok) ==
    LET subdirs == subdirectories(current, dk)
        shown == [i \in 1..(IF Len(subdirs) < 36 THEN Len(subdirs) ELSE 36) |->
                     <<get_prefix_char(i - 1), subdirs[i]>>]
        ch == first_char(str_trim(input))
        index == IF ch = None THEN None ELSE get_index_from_char(ch)
    IN  IF current \notin dk THEN Stay(hf, 1, "io_error", <<>>)
        ELSE IF subdirs = <<>> THEN Stay(hf, 1, "no_subdirectories", <<>>)
        ELSE IF ch # None /\ index # None /\ index < Len(subdirs) /\ index < 36
        THEN go(hf, subdirs[index + 1], write_ok, shown)
        ELSE Stay(hf, 1, "invalid_selection", shown)

\* Mutant: the walk up the ancestors goes one level further.
RECURSIVE search_parents_six(_, _, _, _)
search_parents_six(search_path, depth, name, dk) ==
    IF depth >= 6 \/ parent(search_path) = None THEN None
    ELSE LET candidate == join(parent(search_path), name)
         IN  IF candidate \in dk THEN candidate
             ELSE search_parents_six(parent(search_path), depth + 1, name, dk)

\* for depth in 0..5: the first ancestor/name that exists, or None.
RECURSIVE search_parents(_, _, _, _)
search_parents(search_path, depth, name, dk) ==
    IF depth >= 5 \/ parent(search_path) = None THEN None
    ELSE LET candidate == join(parent(search_path), name)
         IN  IF candidate \in dk THEN candidate
             ELSE search_parents(parent(search_path), depth + 1, name, dk)

\* find by name: bookmarks, then the subdirectories of the working
\* directory, then the ancestors.
find_directory_by_name(bf, hf, current, name, dk, write_ok) ==
    LET bookmarks == load_bookmarks(bf)
        found == SelectSeq(bookmarks,
                           LAMBDA bookmark : /\ file_name(bookmark) # None
                                             /\ file_name(bookmark) = name
                                             /\ bookmark \in dk)
        path == join(current, name)
        candidate == search_parents(current, 0, name, dk)
    IN  IF found # <<>> THEN go(hf, found[1], write_ok, <<>>)
        ELSE IF current \in dk /\ path \in dk THEN go(hf, path, write_ok, <<>>)
        ELSE IF candidate # None THEN go(hf, candidate, write_ok, <<>>)
        ELSE Stay(hf, 1, "not_found", <<>>)

print_current_directory(hf) == Stay(hf, 0, "current_directory", <<>>)

\* -?: print_help and exit(0), before the command line is parsed.
print_help(hf) == Stay(hf, 0, "help", <<>>)

\* Mutant: bookmark is tested before list.
dispatch_bookmark_first(fl) ==
    IF "-?" \in fl THEN "help"
    ELSE IF "bookmark" \in fl THEN "bookmark"
    ELSE IF "list" \in fl THEN "list"
    ELSE IF "forget" \in fl THEN "forget"
    ELSE IF "forget-all" \in fl THEN "forget_all"
    ELSE IF "choose" \in fl \/ "choose=" \in fl
    THEN (IF "choose=" \in fl THEN "choose_letter" ELSE "choose_interactive")
    ELSE IF "back" \in fl THEN "back"
    ELSE IF "up" \in fl THEN "up"
    ELSE IF "down" \in fl THEN "down"
    ELSE IF "directory" \in fl THEN "find"
    ELSE "print"

\* The handler main runs for the action flags fl of the command line:
\* "choose" is --choose without a value, "choose=" --choose with one,
\* "directory" the positional argument.
dispatch(fl) ==
    IF "-?" \in fl THEN "help"
    ELSE IF "list" \in fl THEN "list"
    ELSE IF "bookmark" \in fl THEN "bookmark"
    ELSE IF "forget" \in fl THEN "forget"
    ELSE IF "forget-all" \in fl THEN "forget_all"
    ELSE IF "choose" \in fl \/ "choose=" \in fl
    THEN (IF "choose=" \in fl THEN "choose_letter" ELSE "choose_interactive")
    ELSE IF "back" \in fl THEN "back"
    ELSE IF "up" \in fl THEN "up"
    ELSE IF "down" \in fl THEN "down"
    ELSE IF "directory" \in fl THEN "find"
    ELSE "print"

\* ------------------------------------------------------------------------
\* Inputs and initial states
\* ------------------------------------------------------------------------
\* Letter arguments of --choose: "", "0", "2", "9", "a", "z", "!", "A",
\* "1!".
LetterArgs ==
    {<<>>, <<CH_0>>, <<CH_0 + 2>>, <<CH_9>>, <<CH_a>>, <<CH_z>>, <<33>>,
     <<65>>, <<CH_0 + 1, 33>>}

\* Lines read from standard input: end of file, "\n", "0\n", " z\n", "2 \n",
\* "!\n".
InputLines ==
    {<<>>, <<10>>, <<CH_0, 10>>, <<32, CH_z, 10>>, <<CH_0 + 2, 32, 10>>,
     <<33, 10>>}

\* Outcomes of the write of the history file: it succeeds.
WriteOk == {TRUE}

\* Command lines with one action flag, or none.
SingleFlags ==
    {{"list"}, {"bookmark"}, {"forget"}, {"forget-all"}, {"choose"},
     {"choose="}, {"back"}, {"up"}, {"down"}, {"directory"}, {"-?"}, {}}

\* Command lines with several action flags as well.
FlagSets ==
    SingleFlags \cup
    {{"list", "bookmark"}, {"bookmark", "forget"}, {"forget", "forget-all"},
     {"forget-all", "choose="}, {"choose", "back"}, {"choose=", "up"},
     {"back", "up"}, {"up", "down"}, {"down", "directory"},
     {"list", "directory"}, {"-?", "bookmark"},
     {"list", "bookmark", "forget", "forget-all", "choose=", "back", "up",
      "down", "directory"}}

\* What is on disk while find by name or down runs: every directory of the
\* tree; all but /R; the ancestors of DeepDir with /R, with /R, /L/R and
\* /L/L/R, and alone.
Disks == {Paths, Paths \ {3}, Chain \cup {3}, Chain \cup {3, 5, 9}, Chain}

\* Names given to find by name.
Names == {NAME_L, NAME_LPAD, NAME_R, NAME_Z}

\* Working directories of find by name and of down.
FindCwds == {1, 2, DeepDir}

\* Lines read by down: "0\n", "1\n", " 2\n", "z\n".
DownLines == {<<CH_0, 10>>, <<CH_0 + 1, 10>>, <<32, CH_0 + 2, 10>>, <<CH_z, 10>>}

\* Bookmark stores the runs start from: directories 1..k bookmarked in turn.
InitBookmarkLens == {0, 2, MAX_BOOKMARKS - 1, MAX_BOOKMARKS}

InitBookmarkFiles ==
    {NoFile} \cup {save_bookmarks([i \in 1..k |-> i]) : k \in InitBookmarkLens}

\* Histories the runs start from: the last m visits of one sequence of
\* visits, some to bookmarked directories and some not.
Visits ==
    <<MAX_BOOKMARKS + 1, 1, MAX_BOOKMARKS + 2, MAX_BOOKMARKS, 2,
      MAX_BOOKMARKS - 1, 3, 4, 5, 6>>

InitHistoryLens == {2, HISTORY_MAX - 1, HISTORY_MAX}

InitHistoryFiles ==
    {NoFile} \cup {save_history(SubSeq(Visits, 1, m)) : m \in InitHistoryLens}

\* No conversion made yet.
NoCodec == [index |-> None, ch |-> None, parsed |-> None]

\* The state before the first invocation, but for the files and the
\* invocations running.
Idle ==
    /\ op = "none"
    /\ flags = {}
    /\ cwd = None
    /\ arg = <<>>
    /\ pathExists = FALSE
    /\ disk = {}
    /\ exitCode = 0
    /\ message = "none"
    /\ visited = None
    /\ display = <<>>
    /\ prevBookmarkFile = bookmarkFile
    /\ prevHistoryFile = historyFile
    /\ prevTargetFile = targetFile
    /\ steps = 0
    /\ codec = NoCodec

Init ==
    /\ bookmarkFile \in InitBookmarkFiles
    /\ historyFile \in InitHistoryFiles
    /\ targetFile = NoTarget
    /\ Idle
    /\ procs = <<>>

\* ------------------------------------------------------------------------
\* One invocation: main deletes the target file, dispatches to one
\* handler and exits with its code
\* ------------------------------------------------------------------------
\* in: the inputs of the invocation; bf: the bookmark file it leaves;
\* r: the outcome of its handler.
Invocation(in, bf, r) ==
    /\ steps' = steps + 1
    /\ prevBookmarkFile' = bookmarkFile
    /\ prevHistoryFile' = historyFile
    /\ prevTargetFile' = targetFile
    /\ op' = dispatch(in.flags)
    /\ flags' = in.flags
    /\ cwd' = in.cwd
    /\ arg' = in.arg
    /\ pathExists' = in.exists
    /\ disk' = in.disk
    /\ bookmarkFile' = bf
    /\ historyFile' = r.history
    /\ targetFile' = IF r.target.exists THEN r.target
                     ELSE delete_target_file(targetFile)
    /\ exitCode' = r.exit
    /\ message' = r.msg
    /\ visited' = r.visited
    /\ display' = r.display
    /\ codec' = codec
    /\ procs' = procs

\* The inputs of an invocation that reads neither directory nor argument.
Plain(fl) ==
    [flags |-> fl, cwd |-> None, arg |-> <<>>, exists |-> FALSE, disk |-> {}]

\* The inputs of an invocation run in directory dir.
In(fl, dir) ==
    [flags |-> fl, cwd |-> dir, arg |-> <<>>, exists |-> FALSE, disk |-> {}]

List(n, F) ==
    /\ steps < n
    /\ \E fl \in F :
           /\ dispatch(fl) = "list"
           /\ Invocation(Plain(fl), bookmarkFile,
                         list_bookmarks(bookmarkFile, historyFile))

BookmarkCurrent(n, F) ==
    /\ steps < n
    /\ \E fl \in F, current_dir \in CwdSet :
           /\ dispatch(fl) = "bookmark"
           /\ LET r == bookmark_current(bookmarkFile, current_dir)
              IN  Invocation(In(fl, current_dir), r.file,
                             Stay(historyFile, r.exit, r.msg, <<>>))

ForgetCurrent(n, F) ==
    /\ steps < n
    /\ \E fl \in F, current_dir \in CwdSet :
           /\ dispatch(fl) = "forget"
           /\ LET r == forget_current(bookmarkFile, current_dir)
              IN  Invocation(In(fl, current_dir), r.file,
                             Stay(historyFile, r.exit, r.msg, <<>>))

ForgetAll(n, F) ==
    /\ steps < n
    /\ \E fl \in F :
           /\ dispatch(fl) = "forget_all"
           /\ LET r == forget_all(bookmarkFile)
              IN  Invocation(Plain(fl), r.file,
                             Stay(historyFile, r.exit, r.msg, <<>>))

ChooseByLetter(n, W, F) ==
    /\ steps < n
    /\ \E fl \in F, letter \in LetterArgs, write_ok \in W :
           /\ dispatch(fl) = "choose_letter"
           /\ Invocation([Plain(fl) EXCEPT !.arg = letter], bookmarkFile,
                         choose_directory_by_letter(bookmarkFile, historyFile,
                                                    letter, write_ok))

ChooseInteractive(n, W, F) ==
    /\ steps < n
    /\ \E fl \in F, input \in InputLines, write_ok \in W :
           /\ dispatch(fl) = "choose_interactive"
           /\ Invocation([Plain(fl) EXCEPT !.arg = input], bookmarkFile,
                         choose_directory_interactive(bookmarkFile, historyFile,
                                                      input, write_ok))

Back(n, F) ==
    /\ steps < n
    /\ \E fl \in F, exists \in BOOLEAN :
           /\ dispatch(fl) = "back"
           /\ Invocation([Plain(fl) EXCEPT !.exists = exists], bookmarkFile,
                         change_to_previous(historyFile, exists))

Up(n, W, F) ==
    /\ steps < n
    /\ \E fl \in F, current \in CwdSet, write_ok \in W :
           /\ dispatch(fl) = "up"
           /\ Invocation(In(fl, current), bookmarkFile,
                         change_up_one_level(historyFile, current, write_ok))

Down(n, W, F) ==
    /\ steps < n
    /\ \E fl \in F, current \in {1, DeepDir}, dk \in {Paths, Chain},
          input \in DownLines, write_ok \in W :
           /\ dispatch(fl) = "down"
           /\ Invocation([In(fl, current) EXCEPT !.arg = input, !.disk = dk],
                         bookmarkFile,
                         list_subdirectories(historyFile, current, dk, input,
                                             write_ok))

Find(n, W, F) ==
    /\ steps < n
    /\ \E fl \in F, current \in FindCwds, name \in Names, dk \in Disks,
          write_ok \in W :
           /\ dispatch(fl) = "find"
           /\ Invocation([In(fl, current) EXCEPT !.arg = <<name>>, !.disk = dk],
                         bookmarkFile,
                         find_directory_by_name(bookmarkFile, historyFile,
                                                current, name, dk, write_ok))

PrintCurrent(n, F) ==
    /\ steps < n
    /\ \E fl \in F, current \in {1, 2} :
           /\ dispatch(fl) = "print"
           /\ Invocation(In(fl, current), bookmarkFile,
                         print_current_directory(historyFile))

Help(n, F) ==
    /\ steps < n
    /\ \E fl \in F :
           /\ dispatch(fl) = "help"
           /\ Invocation(Plain(fl), bookmarkFile, print_help(historyFile))

\* One invocation of the store and selector actions, in a run of at most
\* n, the write of the history file having the outcomes W and the command
\* line the flags F.
Step(n, W, F) ==
    \/ List(n, F)
    \/ BookmarkCurrent(n, F)
    \/ ForgetCurrent(n, F)
    \/ ForgetAll(n, F)
    \/ ChooseByLetter(n, W, F)
    \/ ChooseInteractive(n, W, F)
    \/ Back(n, F)
    \/ Up(n, W, F)

Next == Step(MaxSteps, WriteOk, SingleFlags)

Spec == Init /\ [][Next]_vars

\* Runs that start with no bookmark file and no history file; they are one
\* invocation longer.
InitEmpty ==
    /\ Init
    /\ bookmarkFile = NoFile
    /\ historyFile = NoFile

NextEmpty == Step(MaxSteps + 1, WriteOk, SingleFlags)

SpecEmpty == InitEmpty /\ [][NextEmpty]_vars

\* Runs of the whole program: every action of main, any combination of
\* action flags, history writes that succeed or fail, and a target file
\* that an earlier navigation to the newest history entry may have left.
\* They are one invocation shorter.
MainBookmarkFiles ==
    {NoFile, save_bookmarks(<<1, 2, 3>>),
     save_bookmarks([i \in 1..MAX_BOOKMARKS |-> i])}

InitMain ==
    /\ bookmarkFile \in MainBookmarkFiles
    /\ historyFile \in InitHistoryFiles
    /\ targetFile \in
         {NoTarget} \cup
         {write_target_file(h[1]) : h \in {load_history(historyFile)} \ {<<>>}}
    /\ Idle
    /\ procs = <<>>

NextMain ==
    \/ Step(MaxSteps - 1, BOOLEAN, FlagSets)
    \/ Down(MaxSteps - 1, BOOLEAN, FlagSets)
    \/ Find(MaxSteps - 1, BOOLEAN, FlagSets)
    \/ PrintCurrent(MaxSteps - 1, FlagSets)
    \/ Help(MaxSteps - 1, FlagSets)

SpecMain == InitMain /\ [][NextMain]_vars

\* The two conversions on their own: an index is turned into its prefix
\* character and that character parsed again, or a character is parsed.
InitChars ==
    /\ bookmarkFile = NoFile
    /\ historyFile = NoFile
    /\ targetFile = NoTarget
    /\ Idle
    /\ procs = <<>>

PrefixChar ==
    /\ \E index \in 0..MaxIndex :
           codec' = [index |-> index, ch |-> get_prefix_char(index),
                     parsed |-> get_index_from_char(get_prefix_char(index))]
    /\ UNCHANGED <<bookmarkFile, historyFile, targetFile, op, flags, cwd, arg,
                   pathExists, disk, exitCode, message, visited, display,
                   prevBookmarkFile, prevHistoryFile, prevTargetFile, steps,
                   procs>>

IndexFromChar ==
    /\ \E ch \in 0..MaxChar :
           codec' = [index |-> None, ch |-> ch,
                     parsed |-> get_index_from_char(ch)]
    /\ UNCHANGED <<bookmarkFile, historyFile, targetFile, op, flags, cwd, arg,
                   pathExists, disk, exitCode, message, visited, display,
                   prevBookmarkFile, prevHistoryFile, prevTargetFile, steps,
                   procs>>

NextChars == PrefixChar \/ IndexFromChar

SpecChars == InitChars /\ [][NextChars]_vars

\* ------------------------------------------------------------------------
\* Two invocations at the same time.  Each reads its store whole
\* (load_bookmarks, load_history), computes, and writes it whole
\* (fs::write in save_bookmarks, save_history); nothing locks the file
\* between the read and the write.
\* ------------------------------------------------------------------------
Procs == {1, 2}

\* bookmark-current, forget-current, and a navigation that records a visit.
Kinds == {"bookmark", "forget", "visit"}

\* The directories the two invocations work on.
RacePaths == {2, 3} \cup Padded

\* The files the two invocations find: none, a short one, a nearly full
\* one, and the one a single bookmark-current (a single recorded visit) in
\* a directory ending in a blank has written.
RaceBookmarkFiles ==
    {NoFile, save_bookmarks(<<1>>),
     save_bookmarks([i \in 1..(MAX_BOOKMARKS - 1) |-> i + 3]),
     save_bookmarks(<<pad(2)>>)}

RaceHistoryFiles ==
    {NoFile, save_history(SubSeq(Visits, 1, HISTORY_MAX - 1)),
     save_history(<<pad(2)>>)}

InitRace ==
    /\ bookmarkFile \in RaceBookmarkFiles
    /\ historyFile \in RaceHistoryFiles
    /\ targetFile = NoTarget
    /\ Idle
    /\ \E k1 \in Kinds, k2 \in Kinds, p1 \in RacePaths, p2 \in RacePaths :
           LET start(k, path) == [kind |-> k, path |-> path, pc |-> "start",
                                  snapshot |-> NoFile, exit |-> 0,
                                  msg |-> "none"]
           IN  procs = <<start(k1, p1), start(k2, p2)>>

\* Mutant: a write adds the new lines to the file instead of replacing it.
write_appending(shared, written) ==
    [exists |-> TRUE,
     lines |-> shared.lines
               \o SelectSeq(written.lines, LAMBDA l : ~Contains(shared.lines, l))]

\* fs::write(&path, content): the file is replaced by what is written.
write_fully(shared, written) == written

\* What a handler computes from the file it read.
outcome(kind, snapshot, path) ==
    IF kind = "bookmark" THEN bookmark_current(snapshot, path)
    ELSE IF kind = "forget" THEN forget_current(snapshot, path)
    ELSE [exit |-> 0, msg |-> "ok",
          file |-> add_to_history(snapshot, path, TRUE).file]

RaceFrame ==
    UNCHANGED <<targetFile, op, flags, cwd, arg, pathExists, disk, exitCode,
                message, visited, display, prevBookmarkFile, prevHistoryFile,
                prevTargetFile, steps, codec>>

\* The read: load_bookmarks or load_history.
RaceLoad(p) ==
    /\ procs[p].pc = "start"
    /\ procs' = [procs EXCEPT
                   ![p].pc = "loaded",
                   ![p].snapshot = IF procs[p].kind = "visit" THEN historyFile
                                   ELSE bookmarkFile]
    /\ UNCHANGED <<bookmarkFile, historyFile>>
    /\ RaceFrame

\* The rest of the handler: the tests, and the write if it comes to one.
RaceSave(p) ==
    /\ procs[p].pc = "loaded"
    /\ LET r == outcome(procs[p].kind, procs[p].snapshot, procs[p].path)
       IN  /\ procs' = [procs EXCEPT ![p].pc = "done", ![p].exit = r.exit,
                                     ![p].msg = r.msg]
           /\ bookmarkFile' = IF r.msg \in {"bookmarked", "removed"}
                              THEN write_fully(bookmarkFile, r.file)
                              ELSE bookmarkFile
           /\ historyFile' = IF procs[p].kind = "visit"
                             THEN write_fully(historyFile, r.file)
                             ELSE historyFile
    /\ RaceFrame

NextRace == \E p \in Procs : RaceLoad(p) \/ RaceSave(p)

SpecRace == InitRace /\ [][NextRace]_vars

\* ------------------------------------------------------------------------
\* The stores as the program reads them
\* ------------------------------------------------------------------------
Bookmarks == load_bookmarks(bookmarkFile)

History == load_history(historyFile)

PrevBookmarks == load_bookmarks(prevBookmarkFile)

PrevHistory == load_history(prevHistoryFile)

NoDuplicates(s) == \A i, j \in 1..Len(s) : s[i] = s[j] => i = j

\* ------------------------------------------------------------------------
\* What the claims speak of, stated without the program's operators
\* ------------------------------------------------------------------------
Range(s) == {s[i] : i \in 1..Len(s)}

\* s without the entries that are in the set X, order kept.
RECURSIVE Without(_, _)
Without(s, X) ==
    IF s = <<>> THEN <<>>
    ELSE IF Head(s) \in X THEN Without(Tail(s), X)
    ELSE <<Head(s)>> \o Without(Tail(s), X)

FirstN(s, n) == [i \in 1..(IF Len(s) < n THEN Len(s) ELSE n) |-> s[i]]

\* bookmarks ++ (history with any path in bookmarks removed)
UnifiedList(b, h) == b \o Without(h, Range(b))

\* The 36 selection characters in index order: 0-9, then a-z.
Alphabet ==
    <<48, 49, 50, 51, 52, 53, 54, 55, 56, 57,
      97, 98, 99, 100, 101, 102, 103, 104, 105, 106, 107, 108, 109,
      110, 111, 112, 113, 114, 115, 116, 117, 118, 119, 120, 121, 122>>

\* The index of a selection character, or None.
IndexOf(c) ==
    IF \E i \in 1..Len(Alphabet) : Alphabet[i] = c
    THEN (CHOOSE i \in 1..Len(Alphabet) : Alphabet[i] = c) - 1
    ELSE None

\* The paths of the numbered lines last printed.
DisplayedPaths ==
    LET numbered == SelectSeq(display, LAMBDA l : l # Separator)
    IN  [i \in 1..Len(numbered) |-> numbered[i][2]]

\* The character a choose invocation resolved: the first character of the
\* letter argument, or the first character of the line after white space.
SelectionChar ==
    IF op = "choose_letter" THEN (IF arg = <<>> THEN None ELSE arg[1])
    ELSE LET rest == SelectSeq(arg, LAMBDA c : c \notin {9, 10, 13, 32})
         IN  IF rest = <<>> THEN None ELSE rest[1]

\* ------------------------------------------------------------------------
\* Claims
\* ------------------------------------------------------------------------
\* True when the last invocation called add_to_history and it succeeded.
Recorded == visited # None /\ exitCode = 0

\* C1: from an empty bookmark store, after any sequence of bookmark-current
\* and forget-current invocations in arbitrary directories, the persisted
\* bookmark store holds at most 36 entries and no path twice.  Stated of
\* the lines of the file: two equal lines are also two equal entries for
\* every later load.
C1_BookmarkStoreBounded ==
    /\ Len(bookmarkFile.lines) <= 36
    /\ NoDuplicates(bookmarkFile.lines)

\* C2: from an empty history store, after any sequence of record_visit
\* calls with arbitrary paths, the persisted history holds at most 10
\* entries and no path twice, and the path of the latest call is at index
\* 0.  Stated of the lines of the file, as C1.
C2_HistoryStoreBounded ==
    /\ Len(historyFile.lines) <= 10
    /\ NoDuplicates(historyFile.lines)
    /\ Recorded => historyFile.lines # <<>> /\ historyFile.lines[1] = visited

\* The history that record_visit(p) is to leave for a history h.
Revisited(h, p) == FirstN(<<p>> \o Without(h, {p}), 10)

\* C3: record_visit(p) on a history h leaves the first 10 elements of [p]
\* followed by h with every occurrence of p removed, so a path visited
\* again moves to the front and is not duplicated.  It is to hold of the
\* history as the file holds it, or else of the history as it is loaded.
C3_RecordVisit ==
    Recorded =>
        \/ historyFile.lines = Revisited(prevHistoryFile.lines, visited)
        \/ History = Revisited(PrevHistory, visited)

\* C4: the unified list used by list and choose is the bookmarks, order
\* unchanged, followed by the history entries that are not bookmarks, in
\* history order; its length is len(B) plus the number of history entries
\* not in B; B = [/a, /b] and H = [/c, /a] give [/a, /b, /c].
C4_UnifiedList ==
    LET B == Bookmarks
        H == History
        F == filtered_history(B, H)
    IN  /\ B \o F = UnifiedList(B, H)
        /\ Len(B) + Len(F)
             = Len(B) + Cardinality({i \in 1..Len(H) : H[i] \notin Range(B)})
        /\ (B = <<1, 2>> /\ H = <<MAX_BOOKMARKS + 1, 1>>)
             => B \o F = <<1, 2, MAX_BOOKMARKS + 1>>
        /\ op \in {"list", "choose_interactive"}
             => DisplayedPaths
                  = FirstN(UnifiedList(PrevBookmarks, PrevHistory), 36)

C4_Witness ==
    /\ op = "list"
    /\ PrevBookmarks = <<1, 2>>
    /\ PrevHistory = <<MAX_BOOKMARKS + 1, 1>>
    /\ DisplayedPaths = <<1, 2, MAX_BOOKMARKS + 1>>

\* True when character c addresses an entry of list U.
Addresses(c, U) ==
    IndexOf(c) # None /\ IndexOf(c) < Len(U) /\ IndexOf(c) < 36

\* C5: for every store state and every character c of 0-9a-z whose index i
\* is below the length of the unified list and below 36, choose by
\* character c emits exactly entry i of the unified list, in the bookmark
\* part and in the history part alike.
C5_ChooseEmitsEntry ==
    (op = "choose_letter" /\ arg # <<>>
     /\ Addresses(arg[1], UnifiedList(PrevBookmarks, PrevHistory)))
      => /\ exitCode = 0
         /\ targetFile
              = [exists |-> TRUE,
                 path |-> UnifiedList(PrevBookmarks, PrevHistory)
                              [IndexOf(arg[1]) + 1]]

C5_Witness ==
    /\ op = "choose_letter"
    /\ arg # <<>>
    /\ PrevBookmarks # <<>>
    /\ IndexOf(arg[1]) >= Len(PrevBookmarks)
    /\ exitCode = 0
    /\ targetFile.exists
    /\ targetFile.path \notin Range(PrevBookmarks)
    /\ targetFile.path \in Range(PrevHistory)

\* C6: choose, by character or interactive, exits 1 when the unified list is
\* empty, when the selection character is not in 0-9a-z, or when its index
\* is not below the length of the unified list; it then emits no target
\* and leaves both stores as they were.
C6_ChooseFails ==
    op \in {"choose_letter", "choose_interactive"}
      => LET U == UnifiedList(PrevBookmarks, PrevHistory)
             i == IndexOf(SelectionChar)
         IN  (U = <<>> \/ i = None \/ i >= Len(U))
               => /\ exitCode = 1
                  /\ targetFile = NoTarget
                  /\ historyFile = prevHistoryFile
                  /\ bookmarkFile = prevBookmarkFile

C6_Witness ==
    /\ op = "choose_letter"
    /\ arg = <<CH_z>>
    /\ Len(UnifiedList(PrevBookmarks, PrevHistory)) = 3
    /\ exitCode = 1
    /\ targetFile = NoTarget

\* C7: when the bookmark store holds 36 entries, bookmark-current for a path
\* that is not in the store fails with capacity exceeded and exit code 1,
\* and the bookmark file is unchanged.
C7_CapacityExceeded ==
    (op = "bookmark" /\ Len(PrevBookmarks) = 36
     /\ cwd \notin Range(PrevBookmarks))
      => /\ exitCode = 1
         /\ message = "max_bookmarks"
         /\ bookmarkFile = prevBookmarkFile

C7_Witness ==
    /\ op = "bookmark"
    /\ Len(PrevBookmarks) = 36
    /\ cwd \notin Range(PrevBookmarks)
    /\ exitCode = 1
    /\ Len(Bookmarks) = 36

\* C8: bookmark-current for a path that is already in the bookmark store
\* exits 0 with the already-bookmarked warning and leaves the bookmark file
\* unchanged, whatever the size of the store, 36 entries included.
C8_DuplicateIsNoOp ==
    (op = "bookmark" /\ cwd \in Range(PrevBookmarks))
      => /\ exitCode = 0
         /\ message = "already_bookmarked"
         /\ bookmarkFile = prevBookmarkFile

C8_Witness ==
    /\ op = "bookmark"
    /\ Len(PrevBookmarks) = 36
    /\ cwd \in Range(PrevBookmarks)
    /\ exitCode = 0
    /\ message = "already_bookmarked"

\* C9: back never modifies the history store and never calls record_visit,
\* whether it succeeds or fails; every other navigation that succeeds does
\* call it.
C9_BackKeepsHistory ==
    /\ op = "back"
         => /\ historyFile = prevHistoryFile
            /\ visited = None
    /\ (op \in {"choose_letter", "choose_interactive", "up"} /\ exitCode = 0)
         => /\ visited # None
            /\ historyFile.exists

C9_Witness ==
    /\ op = "back"
    /\ exitCode = 0
    /\ targetFile.exists
    /\ PrevHistory # <<>>
    /\ historyFile = prevHistoryFile

\* C10: back emits the history entry at index 0 when the history is not
\* empty and that path exists at the time of the call; it exits 1 and emits
\* no target when the history is empty or the path no longer exists.
C10_BackResolves ==
    op = "back"
      => IF PrevHistory # <<>> /\ pathExists
         THEN /\ exitCode = 0
              /\ targetFile = [exists |-> TRUE, path |-> PrevHistory[1]]
         ELSE /\ exitCode = 1
              /\ targetFile = NoTarget

C10_Witness ==
    /\ op = "back"
    /\ Len(PrevHistory) > 1
    /\ pathExists
    /\ exitCode = 0
    /\ targetFile.path = PrevHistory[1]

\* The navigation actions that record their target.
Recording == {"choose_letter", "choose_interactive", "up", "down", "find"}

\* C11: every successful navigation other than back records its target in
\* the history before it emits it: with the history write failed no target
\* is emitted, and when the invocation succeeds the target is emitted and
\* index 0 of the history is the emitted target.
C11_RecordThenEmit ==
    op \in Recording
      => /\ message = "io_error" => targetFile = NoTarget
         /\ exitCode = 0
              => /\ targetFile.exists
                 /\ History # <<>>
                 /\ History[1] = targetFile.path

\* C12: the target file is deleted at the start of every invocation: when
\* an invocation ends the target file exists only if that invocation
\* resolved a target, and then holds it; after a failed invocation, and
\* after list, bookmark, forget, forget-all, help and print-current, it is
\* absent whatever the invocation before left.
C12_TargetFresh ==
    op # "none"
      => /\ targetFile.exists
              => /\ exitCode = 0
                 /\ op \in Recording \cup {"back"}
                 /\ targetFile.path
                      = (IF op = "back" THEN PrevHistory[1] ELSE visited)
         /\ (exitCode # 0 \/ op \notin Recording \cup {"back"})
              => targetFile = NoTarget

C12_Witness ==
    /\ prevTargetFile.exists
    /\ op = "bookmark"
    /\ message = "bookmarked"
    /\ targetFile = NoTarget

\* The numbered lines last printed, without the blank separator.
Numbered == SelectSeq(display, LAMBDA l : l # Separator)

\* Characters that are not selection characters, those next to them
\* included: "!", "/", ":", "?", "@", "A", "Z", "`", "{".
OtherChars == {33, 47, 58, 63, 64, 65, 90, 96, 123}

\* C13: the labels list and interactive choose print match addressing:
\* line k carries the k-th selection character and the k-th entry of the
\* unified list, bookmarks first and the filtered history continuing the
\* numbering; nothing at index 36 or above is printed; choose by the
\* character of a printed line, on the same stores, selects the path of
\* that line; and no character selects an entry at index 36 or above.
C13_LabelsMatchAddressing ==
    op \in {"list", "choose_interactive"}
      => LET U == UnifiedList(PrevBookmarks, PrevHistory)
             numbered == Numbered
             chosen(c) == choose_directory_by_letter(prevBookmarkFile,
                                                     prevHistoryFile, <<c>>, TRUE)
         IN  /\ Len(numbered) = (IF Len(U) < 36 THEN Len(U) ELSE 36)
             /\ \A k \in 1..Len(numbered) :
                    /\ numbered[k] = <<Alphabet[k], U[k]>>
                    /\ chosen(numbered[k][1]).target
                         = [exists |-> TRUE, path |-> numbered[k][2]]
             /\ \A k \in (Len(numbered) + 1)..36 :
                    ~chosen(Alphabet[k]).target.exists
             /\ \A c \in OtherChars : ~chosen(c).target.exists

C13_Witness ==
    /\ op = "list"
    /\ Len(PrevBookmarks) = 36
    /\ Len(UnifiedList(PrevBookmarks, PrevHistory)) > 36
    /\ Len(Numbered) = 36
    /\ Numbered[36] = <<CH_z, PrevBookmarks[36]>>

\* C14: an index below 36 turned into its character and parsed again is
\* the same index, 0 to 9 being the digits and 10 to 35 the letters a to
\* z; an index of 36 or more gives '?'; and a character is rejected
\* exactly when it is not one of 0-9a-z.
C14_CharRoundTrip ==
    /\ (codec.index # None /\ codec.index < 36)
         => /\ codec.parsed = codec.index
            /\ codec.ch = Alphabet[codec.index + 1]
    /\ (codec.index # None /\ codec.index >= 36) => codec.ch = 63
    /\ codec.ch # None
         => (codec.parsed = None <=> codec.ch \notin Range(Alphabet))
    /\ (codec.ch # None /\ codec.parsed # None)
         => Alphabet[codec.parsed + 1] = codec.ch

C14_Witness ==
    /\ codec.index = 10
    /\ codec.ch = CH_a
    /\ codec.parsed = 10

\* True when both invocations have ended, both of the given kind and both
\* reporting the given success.
BothDone(kind, msg) ==
    \A p \in Procs :
        procs[p].pc = "done" /\ procs[p].kind = kind /\ procs[p].msg = msg

\* C15: the stores are read whole and rewritten whole without locking, so
\* two invocations at the same time can lose an update: when two
\* bookmark-current invocations (or two recorded visits) have both
\* succeeded, the persisted store is what one of them wrote from the store
\* it had read, and it holds the other's path only if that was in the
\* store the writer had read (or is the same path).
C15_LostUpdate ==
    /\ BothDone("bookmark", "bookmarked")
         => \E q \in Procs :
               LET read == load_bookmarks(procs[q].snapshot)
               IN  /\ bookmarkFile.lines = read \o <<procs[q].path>>
                   /\ \A p \in Procs \ {q} :
                          procs[p].path \in Range(bookmarkFile.lines)
                            <=> (procs[p].path \in Range(read)
                                 \/ procs[p].path = procs[q].path)
    /\ BothDone("visit", "ok")
         => \E q \in Procs :
               LET read == load_history(procs[q].snapshot)
               IN  /\ historyFile.lines = Revisited(read, procs[q].path)
                   /\ \A p \in Procs \ {q} :
                          procs[p].path \in Range(historyFile.lines)
                            <=> (procs[p].path
                                   \in Range(FirstN(Without(read, {procs[q].path}), 9))
                                 \/ procs[p].path = procs[q].path)

\* Both bookmark-current invocations reported success, for two directories,
\* and the store holds only one of them.
C15_Witness ==
    /\ BothDone("bookmark", "bookmarked")
    /\ procs[1].path = 2
    /\ procs[2].path = 3
    /\ \E p \in Procs : procs[p].path \notin Range(Bookmarks)
    /\ \E p \in Procs : procs[p].path \in Range(Bookmarks)

\* The k-th ancestor of a directory, or None above the root.
RECURSIVE Ancestor(_, _)
Ancestor(p, k) ==
    IF k = 0 \/ p = None THEN p ELSE Ancestor(parent(p), k - 1)

\* The least element of a non-empty set of numbers.
Least(S) == CHOOSE x \in S : \A y \in S : x <= y

\* What find by name is to resolve for the last invocation, or None.
FindExpected ==
    LET name == arg[1]
        B == PrevBookmarks
        hits == {i \in 1..Len(B) : file_name(B[i]) = name /\ B[i] \in disk}
        levels == {k \in 1..5 : /\ Ancestor(cwd, k) # None
                                /\ join(Ancestor(cwd, k), name) \in disk}
    IN  IF hits # {} THEN B[Least(hits)]
        ELSE IF join(cwd, name) \in disk THEN join(cwd, name)
        ELSE IF levels # {} THEN join(Ancestor(cwd, Least(levels)), name)
        ELSE None

\* C16: find by name resolves the first match in the order of its phases:
\* the first bookmark whose last segment is the name and which exists on
\* disk, else the subdirectory of that name of the working directory, else
\* the nearest of the first five ancestors that has a directory of that
\* name; a matching bookmark that no longer exists is passed over; with no
\* match it exits 1, emits no target and leaves the history as it was.
C16_FindPhases ==
    (op = "find" /\ message # "io_error")
      => IF FindExpected # None
         THEN /\ exitCode = 0
              /\ targetFile = [exists |-> TRUE, path |-> FindExpected]
         ELSE /\ exitCode = 1
              /\ targetFile = NoTarget
              /\ historyFile = prevHistoryFile

\* A bookmark of that name is gone from the disk, and the subdirectory of
\* the working directory is resolved.
C16_Witness ==
    /\ op = "find"
    /\ \E i \in 1..Len(PrevBookmarks) :
           file_name(PrevBookmarks[i]) = arg[1] /\ PrevBookmarks[i] \notin disk
    /\ exitCode = 0
    /\ targetFile.exists
    /\ targetFile.path = join(cwd, arg[1])
    /\ targetFile.path \notin Range(PrevBookmarks)

\* C17: up emits the parent of the working directory and records it in the
\* history; in the root, which has no parent, it exits 1, emits no target
\* and leaves the history as it was.
C17_UpEmitsParent ==
    op = "up"
      => IF parent(cwd) # None
         THEN /\ exitCode = 0
              /\ targetFile = [exists |-> TRUE, path |-> parent(cwd)]
              /\ parent(cwd) \in Range(History)
         ELSE /\ exitCode = 1
              /\ targetFile = NoTarget
              /\ historyFile = prevHistoryFile

\* The action flags in the order of their priority.
Priority ==
    <<"list", "bookmark", "forget", "forget-all", "choose", "back", "up",
      "down", "directory">>

\* The places in Priority of the flags given to the last invocation.
Given ==
    {i \in 1..Len(Priority) :
        Priority[i] \in flags \/ (Priority[i] = "choose" /\ "choose=" \in flags)}

\* The flag whose action the last invocation ran, "none" for print-current.
Ran ==
    IF op \in {"choose_letter", "choose_interactive"} THEN "choose"
    ELSE IF op = "forget_all" THEN "forget-all"
    ELSE IF op = "find" THEN "directory"
    ELSE IF op = "print" THEN "none"
    ELSE op

\* C18: one action runs per invocation, the first in the order list,
\* bookmark, forget, forget-all, choose, back, up, down, directory name
\* whose flag is given, and print-current when none is; the other flags
\* given have no effect: only bookmark, forget and forget-all change the
\* bookmark file, and only a recording navigation the history file.
C18_FirstMatchPriority ==
    (op # "none" /\ "-?" \notin flags)
      => /\ Ran = (IF Given = {} THEN "none" ELSE Priority[Least(Given)])
         /\ Ran \notin {"bookmark", "forget", "forget-all"}
              => bookmarkFile = prevBookmarkFile
         /\ Ran \notin {"choose", "up", "down", "directory"}
              => historyFile = prevHistoryFile
         /\ Ran \notin {"choose", "back", "up", "down", "directory"}
              => targetFile = NoTarget

\* list given together with bookmark: the listing is printed and the
\* bookmark file is as it was.
C18_Witness ==
    /\ flags = {"list", "bookmark"}
    /\ op = "list"
    /\ message = "listed"
    /\ display # <<>>
    /\ bookmarkFile = prevBookmarkFile

\* C19: forget-current removes every bookmark equal to the working
\* directory and keeps the others in their order; the file is written only
\* when an entry was removed; when the working directory is not bookmarked
\* the invocation exits 0 and the file is as it was.
C19_ForgetCurrent ==
    op = "forget"
      => /\ exitCode = 0
         /\ Bookmarks = Without(PrevBookmarks, {cwd})
         /\ IF cwd \in Range(PrevBookmarks)
            THEN /\ message = "removed"
                 /\ bookmarkFile.exists
                 /\ bookmarkFile.lines = Without(PrevBookmarks, {cwd})
            ELSE /\ message = "not_bookmarked"
                 /\ bookmarkFile = prevBookmarkFile

C19_Witness ==
    /\ op = "forget"
    /\ cwd = 2
    /\ Len(PrevBookmarks) = 36
    /\ message = "removed"
    /\ Bookmarks = <<1>> \o [i \in 1..34 |-> i + 2]

\* C20: forget-all removes the bookmark file when there is one, so that
\* the next load returns no bookmark; when there is none it exits 0 and
\* changes nothing; doing it again changes nothing more.
C20_ForgetAll ==
    op = "forget_all"
      => /\ exitCode = 0
         /\ ~bookmarkFile.exists
         /\ Bookmarks = <<>>
         /\ ~prevBookmarkFile.exists
              => bookmarkFile = prevBookmarkFile /\ message = "nothing_to_remove"
         /\ historyFile = prevHistoryFile
         /\ forget_all(bookmarkFile)
              = [exit |-> 0, msg |-> "nothing_to_remove", file |-> bookmarkFile]

C20_Witness ==
    /\ op = "forget_all"
    /\ Len(PrevBookmarks) = 36
    /\ message = "all_removed"
    /\ ~bookmarkFile.exists
    /\ Bookmarks = <<>>

\* C21: each store is changed by its own operations only: bookmark-current,
\* forget-current, forget-all and list leave the history file as it was,
\* and choose, back, up, down and find by name leave the bookmark file as
\* it was, content and order.
C21_StoresApart ==
    /\ op \in {"bookmark", "forget", "forget_all", "list"}
         => historyFile = prevHistoryFile
    /\ op \in Recording \cup {"back"}
         => bookmarkFile = prevBookmarkFile

C21_Witness ==
    /\ op = "forget_all"
    /\ prevBookmarkFile.exists
    /\ ~bookmarkFile.exists
    /\ Len(PrevHistory) = 10
    /\ historyFile = prevHistoryFile

\* True when two outcomes are the same resolution: the same target emitted
\* and the same history left, or exit code 1 on both sides.
SameOutcome(a, b) ==
    \/ /\ a.exit = 0
       /\ b.exit = 0
       /\ a.target = b.target
       /\ a.history = b.history
    \/ a.exit = 1 /\ b.exit = 1

\* The outcome of the last invocation.
Outcome == [exit |-> exitCode, target |-> targetFile, history |-> historyFile]

\* The last invocation set beside the other way of choosing, for the same
\* files and the same first character: an interactive choose beside choose
\* by that character, a choose by character beside an interactive choose
\* reading that character and a newline.
Counterpart ==
    IF op = "choose_interactive"
    THEN choose_directory_by_letter(prevBookmarkFile, prevHistoryFile,
                                    <<arg[1]>>, TRUE)
    ELSE choose_directory_interactive(prevBookmarkFile, prevHistoryFile,
                                      <<arg[1], 10>>, TRUE)

\* C22: interactive choose and choose by character are the same
\* resolution: for every store state and every character c, interactive
\* choose on a line whose first character is c and choose by character c
\* emit the same target and leave the same history, or both exit 1.
C22_ChooseSame ==
    (op \in {"choose_letter", "choose_interactive"} /\ arg # <<>>)
      => SameOutcome(Outcome, Counterpart)

\* C22 as it holds: the same, for every character c that is not white
\* space.
C22_ChooseSameNotBlank ==
    (op \in {"choose_letter", "choose_interactive"} /\ arg # <<>>
     /\ arg[1] \notin {9, 10, 13, 32})
      => SameOutcome(Outcome, Counterpart)

C22_Witness ==
    /\ op = "choose_interactive"
    /\ arg = <<CH_0 + 2, 32, 10>>
    /\ exitCode = 0
    /\ targetFile.exists
    /\ Counterpart.target = targetFile
    /\ Counterpart.history = historyFile

\* C23: a back issued right after an invocation that emitted P, a
\* navigation that recorded P or another back, emits P itself when the
\* path back tests for existence is there; so does every further back.
C23_BackAfterNavigation ==
    (op = "back" /\ prevTargetFile.exists /\ pathExists)
      => /\ exitCode = 0
         /\ targetFile = prevTargetFile

\* C24: the bounds of the stores survive every interleaving of the loads
\* and saves of invocations running at the same time, each write of a file
\* being atomic: the bookmark file never holds more than 36 entries or a
\* path twice, and the history file never more than 10 entries or a path
\* twice.  Stated of the lines of the files, as C1 and C2.
C24_BoundsSurviveRaces ==
    /\ Len(bookmarkFile.lines) <= 36
    /\ NoDuplicates(bookmarkFile.lines)
    /\ Len(historyFile.lines) <= 10
    /\ NoDuplicates(historyFile.lines)

\* C25: in every state the program's own operations reach from empty
\* stores, the unified list, the bookmarks followed by the history entries
\* that are not bookmarks, holds no path twice, so that no path has two
\* selection characters; a path of the history that gets bookmarked is
\* listed once, among the bookmarks.
C25_UnifiedListNoDuplicates ==
    /\ NoDuplicates(UnifiedList(Bookmarks, History))
    /\ (op = "bookmark" /\ message = "bookmarked" /\ cwd \in Range(History))
         => Cardinality({i \in 1..Len(UnifiedList(Bookmarks, History)) :
                           UnifiedList(Bookmarks, History)[i] = cwd}) = 1

====
